---- MODULE Spec2Model ----
(***************************************************************************)
(* Model of src/hooks/useV3Trade.ts: the two hooks useV3TradeExactIn and   *)
(* useV3TradeExactOut, which merge a debounced amount, the routing-API     *)
(* quote and the local v3 router quote into one {state, trade, router}.    *)
(*                                                                         *)
(* The hooks are re-run by the UI runtime whenever a dependency changes,   *)
(* so every action below is "a dependency changes, then the hook is        *)
(* evaluated once".  useDebounce, useRouterTrade* and useLocalV3Trade* are *)
(* imported by the file but their bodies are not part of it; they are      *)
(* modelled from the written contract of the debouncer and the two quote   *)
(* sources.                                                                *)
(***************************************************************************)
EXTENDS Integers, FiniteSets, Sequences, TLC

\* ------------------------------------------------------------------ bounds
TickMs == 125           \* granularity of the clock that drives the timer

\* --------------------------------------------------------- program values
DebounceDelay == 250    \* useDebounce(amount, 250)

\* enum V3TradeState
LOADING == "LOADING"
INVALID == "INVALID"
NO_ROUTE_FOUND == "NO_ROUTE_FOUND"
VALID == "VALID"
SYNCING == "SYNCING"
V3TradeState == {LOADING, INVALID, NO_ROUTE_FOUND, VALID, SYNCING}

\* enum RouterVersion
LEGACY == "LEGACY"
UNISWAP_API == "UNISWAP_API"
RouterVersion == {LEGACY, UNISWAP_API}

\* TradeType.EXACT_INPUT / TradeType.EXACT_OUTPUT: the two hooks
EXACT_INPUT == "EXACT_INPUT"
EXACT_OUTPUT == "EXACT_OUTPUT"
TradeType == {EXACT_INPUT, EXACT_OUTPUT}

Undefined == "undefined"
Null == <<>>
NoTimer == -1

Amounts == {"5 USDC", "10 USDC"}
Currencies == {"ETH", "DAI"}
AmountOpt == Amounts \cup {Undefined}      \* amountIn?: CurrencyAmount<Currency>
CurrencyOpt == Currencies \cup {Undefined} \* currencyOut?: Currency

VARIABLES
    tradeType,    \* which of the two hooks the component has mounted
    amount,       \* the raw amount argument (amountIn / amountOut)
    currency,     \* the fixed-leg currency argument (currencyOut / currencyIn)
    debounced,    \* useDebounce: the settled value
    debouncing,   \* useDebounce: the in-flight flag
    timer,        \* useDebounce: ms elapsed on the pending timer, or NoTimer
    remote,       \* what the routing-API hook currently reports {state, trade}
    remoteArgs,   \* the arguments the routing-API hook was last called with
    local,        \* what the local-router hook currently reports {state, trade}
    localArgs,    \* the arguments the local-router hook was last called with
    result,       \* the value the hook returned on its last evaluation
    probe         \* observer: one earlier evaluation <<snapshot, result, rest>>, or <<>>

vars == <<tradeType, amount, currency, debounced, debouncing, timer,
          remote, remoteArgs, local, localArgs, result, probe>>

\* ------------------------------------------------- the code of useV3Trade.ts

\* A fallback trigger that never fires.
shouldUseFallbackNever(state) == state \in {}

\* A fallback trigger that also fires on INVALID.
shouldUseFallbackOnInvalid(state) == state \in {NO_ROUTE_FOUND, INVALID}

\* const shouldUseFallback = (state) => [NO_ROUTE_FOUND].includes(state)
shouldUseFallback(state) == state \in {NO_ROUTE_FOUND}

\* A fallback decision taken on every remote state but VALID.
useFallbackUnlessValid(dbg, multiRouteTrade) ==
    (~dbg) /\ multiRouteTrade.state # VALID

\* A fallback decision that does not wait for the debouncer.
useFallbackWhileDebouncing(dbg, multiRouteTrade) ==
    shouldUseFallback(multiRouteTrade.state)

\* A fallback decision that is kept for as long as the local source holds a trade.
useFallbackSticky(dbg, multiRouteTrade) ==
    (~dbg) /\ (shouldUseFallback(multiRouteTrade.state) \/ local.trade # Null)

\* const useFallback = !debouncing && shouldUseFallback(multiRouteTrade.state)
useFallback(dbg, multiRouteTrade) ==
    (~dbg) /\ shouldUseFallback(multiRouteTrade.state)

\* A remote query made with the raw amount instead of the debounced one.
RouterArgsExactInRaw(debouncedAmountIn, currencyOut) ==
    <<amount, currencyOut>>

\* useRouterTradeExactIn(debouncedAmountIn, currencyOut)
RouterArgsExactIn(debouncedAmountIn, currencyOut) ==
    <<debouncedAmountIn, currencyOut>>

\* useRouterTradeExactOut(currencyIn, debouncedAmountOut)
RouterArgsExactOut(currencyIn, debouncedAmountOut) ==
    <<currencyIn, debouncedAmountOut>>

\* A local query that is never suppressed.
LocalArgsExactInUngated(fallback, debouncedAmountIn, currencyOut) ==
    <<debouncedAmountIn, currencyOut>>

\* useLocalV3TradeExactIn(useFallback ? debouncedAmountIn : undefined,
\*                        useFallback ? currencyOut : undefined)
LocalArgsExactIn(fallback, debouncedAmountIn, currencyOut) ==
    << IF fallback THEN debouncedAmountIn ELSE Undefined,
       IF fallback THEN currencyOut ELSE Undefined >>

\* A gate that suppresses only the amount and always passes the currency.
LocalArgsExactOutHalfGated(fallback, currencyIn, debouncedAmountOut) ==
    << currencyIn,
       IF fallback THEN debouncedAmountOut ELSE Undefined >>

\* useLocalV3TradeExactOut(useFallback ? currencyIn : undefined,
\*                         useFallback ? debouncedAmountOut : undefined)
LocalArgsExactOut(fallback, currencyIn, debouncedAmountOut) ==
    << IF fallback THEN currencyIn ELSE Undefined,
       IF fallback THEN debouncedAmountOut ELSE Undefined >>

\* { ...quote, router }: every field of quote, then the router field
Spread(quote, router) ==
    [f \in (DOMAIN quote) \cup {"router"} |->
        IF f = "router" THEN router ELSE quote[f]]

\* A return that stays LOADING for as long as the local source is LOADING.
ReturnExactInWaitsForLocal(dbg, fallback, multiRouteTradeExactIn, bestV3TradeExactIn) ==
    IF dbg \/ bestV3TradeExactIn.state = LOADING
    THEN [state |-> LOADING, trade |-> Null, router |-> UNISWAP_API]
    ELSE IF fallback
         THEN Spread(bestV3TradeExactIn, LEGACY)
         ELSE Spread(multiRouteTradeExactIn, UNISWAP_API)

\* A return that, while debouncing, still shows a remote quote that is VALID.
ReturnExactInShowsStaleValid(dbg, fallback, multiRouteTradeExactIn, bestV3TradeExactIn) ==
    IF dbg /\ multiRouteTradeExactIn.state # VALID
    THEN [state |-> LOADING, trade |-> Null, router |-> UNISWAP_API]
    ELSE IF fallback
         THEN Spread(bestV3TradeExactIn, LEGACY)
         ELSE Spread(multiRouteTradeExactIn, UNISWAP_API)

\* A return that, while debouncing, repeats what the previous evaluation returned.
ReturnExactInCachesLast(dbg, fallback, multiRouteTradeExactIn, bestV3TradeExactIn) ==
    IF dbg
    THEN result
    ELSE IF fallback
         THEN Spread(bestV3TradeExactIn, LEGACY)
         ELSE Spread(multiRouteTradeExactIn, UNISWAP_API)

\* A return that answers from the local source when not falling back.
ReturnExactInAlwaysLocal(dbg, fallback, multiRouteTradeExactIn, bestV3TradeExactIn) ==
    IF dbg
    THEN [state |-> LOADING, trade |-> Null, router |-> UNISWAP_API]
    ELSE IF fallback
         THEN Spread(bestV3TradeExactIn, LEGACY)
         ELSE Spread(bestV3TradeExactIn, UNISWAP_API)

\* A return that skips the debouncing short-circuit.
ReturnExactInNoShortCircuit(dbg, fallback, multiRouteTradeExactIn, bestV3TradeExactIn) ==
    IF fallback
    THEN Spread(bestV3TradeExactIn, LEGACY)
    ELSE Spread(multiRouteTradeExactIn, UNISWAP_API)

\* lines 45-51: the value useV3TradeExactIn returns
ReturnExactIn(dbg, fallback, multiRouteTradeExactIn, bestV3TradeExactIn) ==
    IF dbg
    THEN [state |-> LOADING, trade |-> Null, router |-> UNISWAP_API]
    ELSE IF fallback
         THEN Spread(bestV3TradeExactIn, LEGACY)
         ELSE Spread(multiRouteTradeExactIn, UNISWAP_API)

\* A return whose fallback branch is tagged like the remote branch.
ReturnExactOutUntaggedFallback(dbg, fallback, multiRouteTradeExactOut, bestV3TradeExactOut) ==
    IF dbg
    THEN [state |-> LOADING, trade |-> Null, router |-> UNISWAP_API]
    ELSE IF fallback
         THEN Spread(bestV3TradeExactOut, UNISWAP_API)
         ELSE Spread(multiRouteTradeExactOut, UNISWAP_API)

\* A return that keeps the remote trade on the LOADING short-circuit.
ReturnExactOutKeepsTrade(dbg, fallback, multiRouteTradeExactOut, bestV3TradeExactOut) ==
    IF dbg
    THEN [state |-> LOADING, trade |-> multiRouteTradeExactOut.trade, router |-> UNISWAP_API]
    ELSE IF fallback
         THEN Spread(bestV3TradeExactOut, LEGACY)
         ELSE Spread(multiRouteTradeExactOut, UNISWAP_API)

\* A return that tags the remote quote LEGACY when falling back.
ReturnExactOutFallbackForwardsRemote(dbg, fallback, multiRouteTradeExactOut, bestV3TradeExactOut) ==
    IF dbg
    THEN [state |-> LOADING, trade |-> Null, router |-> UNISWAP_API]
    ELSE IF fallback
         THEN Spread(multiRouteTradeExactOut, LEGACY)
         ELSE Spread(multiRouteTradeExactOut, UNISWAP_API)

\* lines 77-83: the value useV3TradeExactOut returns
ReturnExactOut(dbg, fallback, multiRouteTradeExactOut, bestV3TradeExactOut) ==
    IF dbg
    THEN [state |-> LOADING, trade |-> Null, router |-> UNISWAP_API]
    ELSE IF fallback
         THEN Spread(bestV3TradeExactOut, LEGACY)
         ELSE Spread(multiRouteTradeExactOut, UNISWAP_API)

\* The mounted hook's wiring, by trade direction.
RouterArgs(tt, deb, cur) ==
    IF tt = EXACT_INPUT THEN RouterArgsExactIn(deb, cur)
                        ELSE RouterArgsExactOut(cur, deb)

LocalArgs(tt, fallback, deb, cur) ==
    IF tt = EXACT_INPUT THEN LocalArgsExactIn(fallback, deb, cur)
                        ELSE LocalArgsExactOut(fallback, cur, deb)

Return(tt, dbg, fallback, multi, best) ==
    IF tt = EXACT_INPUT THEN ReturnExactIn(dbg, fallback, multi, best)
                        ELSE ReturnExactOut(dbg, fallback, multi, best)

\* ------------------------------------- the quote sources (contract only)

Quote(state, trade) == [state |-> state, trade |-> trade]

\* A trade priced by source `by` for the argument pair `args`.
TradeFor(by, args) == <<by, args[1], args[2]>>

Absent(args) == args[1] = Undefined \/ args[2] = Undefined
Suppressed(args) == args[1] = Undefined /\ args[2] = Undefined

\* What a source may report for complete arguments: VALID carries a trade,
\* LOADING / INVALID / NO_ROUTE_FOUND carry none, SYNCING may still carry one.
QuotesFor(by, args) ==
    { Quote(LOADING, Null), Quote(INVALID, Null), Quote(NO_ROUTE_FOUND, Null),
      Quote(VALID, TradeFor(by, args)),
      Quote(SYNCING, Null), Quote(SYNCING, TradeFor(by, args)) }

\* What a source may report for incomplete arguments: nothing to price.
InertQuotes == { Quote(LOADING, Null), Quote(INVALID, Null) }

\* The remote hook on being called with `args`, having reported `old` for
\* `oldArgs`: same arguments, same report; incomplete arguments, an inert
\* report; new complete arguments, a fresh LOADING or the report not yet
\* replaced.
RemoteOnCall(args, oldArgs, old) ==
    IF args = oldArgs THEN {old}
    ELSE IF Absent(args) THEN InertQuotes
    ELSE {Quote(LOADING, Null), old}

\* The local hook on being called with `args`: both arguments undefined is
\* the inert LOADING report and cancels any run; otherwise as the remote.
LocalOnCall(args, oldArgs, old) ==
    IF Suppressed(args) THEN {Quote(LOADING, Null)}
    ELSE IF args = oldArgs THEN {old}
    ELSE IF Absent(args) THEN {Quote(INVALID, Null)}
    ELSE {Quote(LOADING, Null), old}

\* ------------------------------------------- the debouncer (contract only)

\* A restart that leaves an already pending timer running.
DebouncerRestartKeepsTimer ==
    /\ timer' = (IF timer = NoTimer THEN 0 ELSE timer)
    /\ debouncing' = TRUE
    /\ debounced' = debounced

\* The raw value changed: cancel the pending timer, schedule a new one,
\* report debouncing and keep exposing the previously settled value.
DebouncerRestart ==
    /\ timer' = 0
    /\ debouncing' = TRUE
    /\ debounced' = debounced

\* The raw value stayed unchanged for the whole window: settle on it.
DebouncerSettle ==
    /\ timer >= DebounceDelay
    /\ debounced' = amount
    /\ debouncing' = FALSE
    /\ timer' = NoTimer

\* ------------------------------------------------- one evaluation of the hook
\* Reads the primed debouncer and arguments, calls the remote hook (which
\* reports `multi`), gates and calls the local hook, and returns.
Evaluate(multi, localBase) ==
    LET rargs == RouterArgs(tradeType, debounced', currency')
        fb == useFallback(debouncing', multi)
        largs == LocalArgs(tradeType, fb, debounced', currency')
    IN  /\ remoteArgs' = rargs
        /\ remote' = multi
        /\ localArgs' = largs
        /\ \E best \in LocalOnCall(largs, localArgs, localBase) :
              /\ local' = best
              /\ result' = Return(tradeType, debouncing', fb, multi, best)

\* An evaluation in which the remote hook reacts to its (possibly new) arguments.
Reevaluate ==
    \E multi \in RemoteOnCall(RouterArgs(tradeType, debounced', currency'),
                              remoteArgs, remote) :
        Evaluate(multi, local)

\* ---------------------------------------------------------------- actions

Init ==
    /\ tradeType \in TradeType
    /\ amount \in AmountOpt
    /\ currency \in CurrencyOpt
    /\ debounced = amount
    /\ debouncing = FALSE
    /\ timer = NoTimer
    /\ remoteArgs = RouterArgs(tradeType, debounced, currency)
    /\ remote \in (IF Absent(remoteArgs) THEN InertQuotes ELSE {Quote(LOADING, Null)})
    /\ local = Quote(LOADING, Null)
    /\ localArgs = LocalArgs(tradeType, useFallback(debouncing, remote), debounced, currency)
    /\ result = Return(tradeType, debouncing, useFallback(debouncing, remote), remote, local)
    /\ probe = <<>>

\* The caller passes a different amount: the debouncer cancels the pending
\* timer, schedules a new one and reports debouncing.
ChangeAmount ==
    \E v \in AmountOpt \ {amount} :
        /\ amount' = v
        /\ DebouncerRestart
        /\ UNCHANGED <<tradeType, currency, probe>>
        /\ Reevaluate

\* A currency change that goes through the debouncer like the amount.
ChangeCurrencyDebounced ==
    \E c \in CurrencyOpt \ {currency} :
        /\ currency' = c
        /\ DebouncerRestart
        /\ UNCHANGED <<tradeType, amount, probe>>
        /\ Reevaluate

\* The caller passes a different fixed-leg currency.
ChangeCurrency ==
    \E c \in CurrencyOpt \ {currency} :
        /\ currency' = c
        /\ UNCHANGED <<tradeType, amount, debounced, debouncing, timer, probe>>
        /\ Reevaluate

\* Time passes on the pending timer; no dependency of the hook changes.
Tick ==
    /\ timer # NoTimer
    /\ timer < DebounceDelay
    /\ timer' = (IF timer + TickMs > DebounceDelay THEN DebounceDelay ELSE timer + TickMs)
    /\ UNCHANGED <<tradeType, amount, currency, debounced, debouncing,
                   remote, remoteArgs, local, localArgs, result, probe>>

\* The timer fires after the full window: the debounced value becomes the
\* raw value and debouncing ends.
Settle ==
    /\ timer # NoTimer
    /\ DebouncerSettle
    /\ UNCHANGED <<tradeType, amount, currency, probe>>
    /\ Reevaluate

\* The routing API reports something new for the arguments it was given.
RemoteUpdate ==
    /\ UNCHANGED <<tradeType, amount, currency, debounced, debouncing, timer, probe>>
    /\ \E multi \in (IF Absent(remoteArgs) THEN InertQuotes
                     ELSE QuotesFor("api", remoteArgs)) \ {remote} :
          Evaluate(multi, local)

\* The local router reports something new for the arguments it was given.
LocalUpdate ==
    /\ ~Absent(localArgs)
    /\ UNCHANGED <<tradeType, amount, currency, debounced, debouncing, timer, probe>>
    /\ \E best \in QuotesFor("v3", localArgs) \ {local} :
          Evaluate(remote, best)

\* The runtime re-runs the hook although nothing changed.
Rerender ==
    /\ UNCHANGED <<tradeType, amount, currency, debounced, debouncing, timer, probe>>
    /\ Reevaluate

Next ==
    \/ ChangeAmount
    \/ ChangeCurrency
    \/ Tick
    \/ Settle
    \/ RemoteUpdate
    \/ LocalUpdate
    \/ Rerender

Spec == Init /\ [][Next]_vars

\* The timer of the debouncer is a host timer: time passes and a timer whose
\* window has elapsed fires.  Nothing is assumed of the callers or the sources.
SpecFair == Spec /\ WF_vars(Tick) /\ WF_vars(Settle)

\* The snapshot one evaluation reads.
Snapshot == <<debounced, debouncing, remote, local>>

\* What the hook's surroundings hold besides the snapshot.
OutsideSnapshot == <<amount, currency, timer>>

\* An observer notes the current evaluation, once, to compare later ones with.
Capture ==
    /\ probe = <<>>
    /\ probe' = <<Snapshot, result, OutsideSnapshot>>
    /\ UNCHANGED <<tradeType, amount, currency, debounced, debouncing, timer,
                   remote, remoteArgs, local, localArgs, result>>

NextObserved ==
    \/ Next
    \/ Capture

SpecObserved == Init /\ [][NextObserved]_vars

\* ------------------------------------------------------------ properties

LoadingResult == [state |-> LOADING, trade |-> Null, router |-> UNISWAP_API]

\* C1 (P1, debounce dominance): in both hooks, whenever the debouncer reports
\* debouncing the returned result is exactly {LOADING, null, UNISWAP_API},
\* whatever the remote and local sources hold.
DebounceDominance == debouncing => result = LoadingResult

\* C1 case: the hook is debouncing while the routing API holds a VALID trade.
DebouncingOverValidRemote ==
    debouncing /\ remote.state = VALID /\ remote.trade # Null

\* C2 (P2, fallback trigger exactness): the returned router is LEGACY exactly
\* when debouncing is false and the remote state is NO_ROUTE_FOUND; for every
\* other remote state the router is UNISWAP_API.
FallbackTriggerExact ==
    /\ (result.router = LEGACY) <=> (~debouncing /\ remote.state = NO_ROUTE_FOUND)
    /\ remote.state \in {INVALID, LOADING, SYNCING, VALID} => result.router = UNISWAP_API

\* C2 case: settled, remote NO_ROUTE_FOUND, the result is tagged LEGACY.
FallbackActive ==
    ~debouncing /\ remote.state = NO_ROUTE_FOUND /\ result.router = LEGACY

\* The argument pair in the mounted hook's order.
InHookOrder(amt, cur) == IF tradeType = EXACT_INPUT THEN <<amt, cur>> ELSE <<cur, amt>>

\* C3 (P3, local gating): the local source is called with the debounced
\* amount and the fixed currency when useFallback is true and with
\* (undefined, undefined) otherwise; gating never leaves one argument real
\* and the other suppressed.
LocalGating ==
    /\ localArgs = (IF ~debouncing /\ remote.state = NO_ROUTE_FOUND
                    THEN InHookOrder(debounced, currency)
                    ELSE <<Undefined, Undefined>>)
    /\ localArgs \in {InHookOrder(debounced, currency), <<Undefined, Undefined>>}

\* C3 case: the exact-out hook is not falling back although both of its
\* arguments are present, so both must have been suppressed.
LocalSuppressedWithRealInputs ==
    /\ tradeType = EXACT_OUTPUT
    /\ ~debouncing /\ remote.state = VALID
    /\ debounced # Undefined /\ currency # Undefined
    /\ Suppressed(localArgs)

RemoteForwarding ==
    (~debouncing /\ remote.state # NO_ROUTE_FOUND) =>
        result = [state |-> remote.state, trade |-> remote.trade, router |-> UNISWAP_API]

\* C5 case (scenario B): the exact-in hook returns the remote VALID trade.
RemoteValidForwarded ==
    /\ tradeType = EXACT_INPUT /\ ~debouncing
    /\ remote = Quote(VALID, TradeFor("api", remoteArgs))
    /\ result.state = VALID

\* C6 (fallback forwarding): settled and remote NO_ROUTE_FOUND, the result is
\* the local state and trade tagged LEGACY; a local NO_ROUTE_FOUND is returned
\* as {NO_ROUTE_FOUND, null, LEGACY}.
FallbackForwarding ==
    (~debouncing /\ remote.state = NO_ROUTE_FOUND) =>
        /\ result = [state |-> local.state, trade |-> local.trade, router |-> LEGACY]
        /\ local.state = NO_ROUTE_FOUND =>
              result = [state |-> NO_ROUTE_FOUND, trade |-> Null, router |-> LEGACY]

\* C6 case (scenario C): the exact-out hook returns the local VALID trade
\* after the remote found no route.
LocalValidForwarded ==
    /\ tradeType = EXACT_OUTPUT /\ ~debouncing
    /\ remote.state = NO_ROUTE_FOUND
    /\ local = Quote(VALID, TradeFor("v3", localArgs))
    /\ result.router = LEGACY

\* An argument is absent and, for the amount, the absence has settled.
AbsencePropagated ==
    ~debouncing /\ (debounced = Undefined \/ currency = Undefined)

\* C7 as stated (absent arguments): once the absence of either argument has
\* propagated through the debouncer the result has state LOADING and trade null.
AbsentGivesLoading ==
    AbsencePropagated => (result.state = LOADING /\ result.trade = Null)

\* C7 as the code has it: with an argument absent the result never carries a
\* trade and is never a fallback result; while the amount's absence is still
\* debouncing it is the LOADING result, and once propagated it is the remote
\* source's report for incomplete input, LOADING or INVALID, tagged UNISWAP_API.
AbsentGivesNoTrade ==
    /\ (amount = Undefined \/ currency = Undefined) =>
          /\ result.trade = Null
          /\ result.state \in {LOADING, INVALID}
          /\ result.router = UNISWAP_API
    /\ AbsencePropagated =>
          result = [state |-> remote.state, trade |-> Null, router |-> UNISWAP_API]

\* C7 case: the amount is absent, the debouncer holds undefined as the
\* settled value, the currency is present and the hook has returned INVALID.
AmountAbsenceSettled ==
    /\ amount = Undefined /\ debounced = Undefined /\ ~debouncing
    /\ currency # Undefined
    /\ result.state = INVALID

\* C8 (no stale trade during an input change): from the change of the raw
\* amount until the debouncer settles every result is {LOADING, null,
\* UNISWAP_API}, so no trade is returned while the raw amount differs from the
\* debounced amount the sources were queried with.
NoStaleTradeWhileChanging ==
    /\ timer # NoTimer => result = LoadingResult
    /\ amount # debounced => (timer # NoTimer /\ result.trade = Null)

\* C8 case (scenario A): the amount just changed from 5 to 10 while the
\* remote still holds the VALID trade priced for 5.
StaleValidDuringChange ==
    /\ tradeType = EXACT_INPUT
    /\ debounced = "5 USDC" /\ amount = "10 USDC" /\ currency = "ETH"
    /\ timer # NoTimer /\ timer < DebounceDelay
    /\ remote = Quote(VALID, TradeFor("api", <<"5 USDC", "ETH">>))

\* C9 (remote always queried): in every evaluation the remote source is
\* called with the debounced amount, never the raw one, and the current
\* fixed currency, debouncing or not, falling back or not.
RemoteAlwaysQueried == remoteArgs = InHookOrder(debounced, currency)

\* C9 case: the local fallback is active and the remote is still queried
\* with the same complete arguments.
RemoteQueriedDuringFallback ==
    /\ result.router = LEGACY
    /\ localArgs = remoteArgs /\ ~Absent(remoteArgs)

\* C10 (P5, snapshot purity): an evaluation that reads the same snapshot
\* (debounced value, debouncing flag, remote quote, local quote) as an earlier
\* evaluation returns the identical result, whatever happened in between.
SnapshotPurity ==
    (probe # <<>> /\ probe[1] = Snapshot) => probe[2] = result

\* C10 case: the snapshot noted earlier, debouncing over a remote trade, is
\* read again although the raw amount, the currency and the time on the
\* timer are not what they were then.
SnapshotSeenAgain ==
    /\ probe # <<>> /\ probe[1] = Snapshot
    /\ probe[3][1] # amount /\ probe[3][2] # currency /\ probe[3][3] # timer
    /\ debouncing /\ remote.trade # Null

\* C11 (debouncer settling): the debounced amount changes only to the latest
\* raw value and only when the timer has run the full window since the last
\* raw change; every raw change restarts the one timer from zero and leaves
\* the previously settled value exposed; the timer advances only with time,
\* while the raw value stays as it is; while debouncing the exposed value
\* does not change.
DebouncerSettling ==
    [][ /\ debounced' # debounced =>
              (timer >= DebounceDelay /\ amount' = amount /\ debounced' = amount
               /\ timer' = NoTimer /\ ~debouncing')
        /\ amount' # amount =>
              (timer' = 0 /\ debouncing' /\ debounced' = debounced)
        /\ (timer # NoTimer /\ timer' # NoTimer /\ timer' > timer) =>
              (timer' - timer <= TickMs /\ amount' = amount)
        /\ (debouncing /\ debouncing') => debounced' = debounced
        /\ debouncing' <=> (timer' # NoTimer) ]_vars

\* C11 case: the raw amount went from undefined to 10 USDC and the timer has
\* run the full window with the previously settled value still exposed.
WindowElapsedAfterRestart ==
    /\ timer = DebounceDelay /\ debouncing
    /\ debounced = Undefined /\ amount = "10 USDC"

\* C12 (fallback evaluated only after settling): while debouncing the local
\* source is given (undefined, undefined), also when the remote reports
\* NO_ROUTE_FOUND for the stale debounced amount; real arguments reach the
\* local source only in an evaluation where debouncing is false.
FallbackOnlyAfterSettling ==
    /\ debouncing => localArgs = <<Undefined, Undefined>>
    /\ localArgs # <<Undefined, Undefined>> => ~debouncing

\* C12 case: debouncing while the remote reports NO_ROUTE_FOUND for
\* complete, stale arguments.
DebouncingOverNoRoute ==
    /\ debouncing /\ amount # debounced
    /\ remote.state = NO_ROUTE_FOUND /\ ~Absent(remoteArgs)

\* C13 (fallback is not sticky): after an evaluation that fell back, as soon
\* as the remote state is anything other than NO_ROUTE_FOUND, or debouncing
\* is true, the very next result is tagged UNISWAP_API and the local source is
\* given (undefined, undefined), whatever the local source had produced.
FallbackNotSticky ==
    [][ (result.router = LEGACY /\ (remote'.state # NO_ROUTE_FOUND \/ debouncing')) =>
            /\ result'.router = UNISWAP_API
            /\ localArgs' = <<Undefined, Undefined>>
            /\ (~debouncing' => result'.trade = remote'.trade) ]_vars

\* C13 case: an earlier evaluation returned the local VALID trade tagged
\* LEGACY; now, settled on the same amount, the remote reports VALID and the
\* result is the remote trade tagged UNISWAP_API.
FallbackLeftAfterLocalValid ==
    /\ probe # <<>>
    /\ probe[2].router = LEGACY /\ probe[2].state = VALID
    /\ probe[1][1] = debounced /\ probe[3][2] = currency
    /\ ~debouncing /\ remote.state = VALID
    /\ result.router = UNISWAP_API /\ result.trade = remote.trade

\* C14 (suppressed local source is inert): whenever useFallback is false the
\* local source reports LOADING with no trade and does not search; once
\* useFallback turns false a run that was in progress is gone.
SuppressedLocalInert ==
    (debouncing \/ remote.state # NO_ROUTE_FOUND) =>
        (local.state = LOADING /\ local.trade = Null)

\* C14 case: the local source had been SYNCING with a trade while the hook
\* fell back; the remote has since reported INVALID for the same arguments
\* and the local source is back to its inert report.
LocalRunCancelled ==
    /\ probe # <<>>
    /\ probe[2].router = LEGACY /\ probe[1][4].state = SYNCING /\ probe[1][4].trade # Null
    /\ probe[1][1] = debounced /\ probe[3][2] = currency
    /\ ~debouncing /\ remote.state = INVALID
    /\ local = Quote(LOADING, Null)

\* C15 (the fixed leg is never debounced): a change of the fixed currency
\* with an unchanged amount leaves the debouncer as it was, so a settled hook
\* returns a forwarded quote and not the short-circuit; in that evaluation
\* the remote source, and the local source when falling back, is called with
\* the new currency and the debounced amount.
FixedLegNotDebounced ==
    [][ (currency' # currency /\ amount' = amount) =>
            /\ debouncing' = debouncing /\ debounced' = debounced /\ timer' = timer
            /\ remoteArgs' = (IF tradeType = EXACT_INPUT THEN <<debounced, currency'>>
                                                         ELSE <<currency', debounced>>)
            /\ (~debouncing /\ remote'.state = NO_ROUTE_FOUND) =>
                  (localArgs' = remoteArgs' /\ result'.router = LEGACY
                   /\ result'.state = local'.state /\ result'.trade = local'.trade)
            /\ (~debouncing /\ remote'.state # NO_ROUTE_FOUND) =>
                  (result'.router = UNISWAP_API
                   /\ result'.state = remote'.state /\ result'.trade = remote'.trade) ]_vars

\* C15 case: the exact-in hook, settled, returns the remote VALID trade that
\* was priced for the same amount and another currency than the current one.
CurrencyChangedUnderSettledAmount ==
    /\ tradeType = EXACT_INPUT /\ ~debouncing /\ timer = NoTimer
    /\ currency # Undefined /\ remote.state = VALID
    /\ remote.trade[2] = debounced /\ remote.trade[3] # currency
    /\ remoteArgs = <<debounced, currency>>
    /\ result.trade = remote.trade

\* The pair <<a, b>> with its members exchanged.
Swapped(pair) == <<pair[2], pair[1]>>

\* C16 (exact-in / exact-out equivalence): on the debouncing flag and the
\* remote and local quotes the mounted hook has just read, the other hook
\* returns the same state, trade and router, decides the same way on
\* enabling or suppressing the local source, and passes the same arguments
\* in exchanged positions.
ExactInOutEquivalent ==
    LET fb == useFallback(debouncing, remote) IN
    /\ result = ReturnExactIn(debouncing, fb, remote, local)
    /\ result = ReturnExactOut(debouncing, fb, remote, local)
    /\ LocalArgsExactIn(fb, debounced, currency)
          = Swapped(LocalArgsExactOut(fb, currency, debounced))
    /\ RouterArgsExactIn(debounced, currency)
          = Swapped(RouterArgsExactOut(currency, debounced))
    /\ localArgs = (IF tradeType = EXACT_INPUT
                    THEN Swapped(LocalArgsExactOut(fb, currency, debounced))
                    ELSE Swapped(LocalArgsExactIn(fb, debounced, currency)))
    /\ Suppressed(LocalArgsExactIn(fb, debounced, currency))
          <=> Suppressed(LocalArgsExactOut(fb, currency, debounced))

\* C16 case: the exact-in hook falls back on a local quote that is SYNCING
\* with a trade, where the two return branches and gates all differ.
ExactInFallsBackOnSyncing ==
    /\ tradeType = EXACT_INPUT /\ ~debouncing
    /\ remote.state = NO_ROUTE_FOUND
    /\ local.state = SYNCING /\ local.trade # Null
    /\ localArgs = <<debounced, currency>>

\* C17 (remote NO_ROUTE_FOUND is never surfaced): no result has state
\* NO_ROUTE_FOUND together with router UNISWAP_API; a NO_ROUTE_FOUND result
\* is tagged LEGACY and is the local source's report.
RemoteNoRouteNeverSurfaced ==
    /\ ~(result.state = NO_ROUTE_FOUND /\ result.router = UNISWAP_API)
    /\ result.state = NO_ROUTE_FOUND =>
          (result.router = LEGACY /\ local.state = NO_ROUTE_FOUND /\ ~debouncing)

\* C17 case: remote and local both report NO_ROUTE_FOUND in the exact-in hook.
BothSourcesNoRoute ==
    /\ tradeType = EXACT_INPUT
    /\ remote.state = NO_ROUTE_FOUND /\ local.state = NO_ROUTE_FOUND
    /\ result = [state |-> NO_ROUTE_FOUND, trade |-> Null, router |-> LEGACY]

\* The states a source ends a quote in.
Terminal == {VALID, INVALID, NO_ROUTE_FOUND}

\* The sources that decide the result report a non-transient state.
SourcesTerminal ==
    /\ remote.state \in Terminal
    /\ remote.state = NO_ROUTE_FOUND => local.state \in Terminal

\* C18 (liveness): if the raw amount stops changing, at any value including
\* undefined, the debouncer eventually settles on it for good; if moreover the
\* remote source, and the local source when the remote reports
\* NO_ROUTE_FOUND, keeps reporting a non-transient state, the result
\* eventually reaches VALID, INVALID or NO_ROUTE_FOUND and stays there.
EventuallySettledAndTerminal ==
    \A v \in AmountOpt :
        /\ <>[](amount = v) => <>[](~debouncing /\ debounced = v /\ timer = NoTimer)
        /\ <>[](amount = v /\ SourcesTerminal) => <>[](result.state \in Terminal)

\* C18 case: the timer has run out on a withdrawn amount while the remote
\* still holds a VALID trade for the amount exposed; settling is what remains.
SettleDueOnUndefined ==
    /\ amount = Undefined /\ debounced # Undefined
    /\ timer = DebounceDelay /\ debouncing
    /\ remote.state = VALID /\ result = LoadingResult

TypeOK ==
    /\ tradeType \in TradeType
    /\ amount \in AmountOpt /\ debounced \in AmountOpt
    /\ currency \in CurrencyOpt
    /\ debouncing \in BOOLEAN
    /\ timer \in {NoTimer} \cup (0..DebounceDelay)
    /\ remote.state \in V3TradeState /\ local.state \in V3TradeState
    /\ result.state \in V3TradeState /\ result.router \in RouterVersion
    /\ DOMAIN result = {"state", "trade", "router"}

====
